---- MODULE Spec2Model ----
(***************************************************************************)
(* Keeper / Aegis cloud security monitor: the event analysis and response  *)
(* pipeline (security_monitor.py, response_handler.py, event_generator.py) *)
(* and the web orchestrator that drives it (app.py).                       *)
(*                                                                         *)
(* Python values are modelled as follows.  A dict is a function whose      *)
(* DOMAIN is the set of keys present, so a missing key and dict.get() are  *)
(* what they are in the code.  None is `None` where the code holds a       *)
(* string and `Null` where it holds a dict.  A str is a TLA+ string;       *)
(* Chars gives its characters where the code looks inside it (lower(),     *)
(* the `in` substring test).  Wall-clock timestamps of events and response *)
(* records are not modelled; the orchestrator's last_update is a logical   *)
(* clock.                                                                  *)
(***************************************************************************)
EXTENDS Integers, Sequences, FiniteSets, TLC

(***************************************************************************)
(* Bounds of the model.                                                    *)
(***************************************************************************)
\* failed_login events the rule engine counts before the map is reset
MaxFailedLogins == 4
\* response records kept before the history is cleared
MaxHistory == 2
\* fields in which a complete input event differs from the benign event
MaxDeviations == 2
\* monitoring cycles the background thread starts
MaxCycles == 2
\* manual-response requests served
MaxManual == 2
\* entries of each generator pool that random.choice draws from
MaxDraw == 1
\* consecutive clear_response_history calls
MaxClears == 2
\* passes of the command-line loop
MaxMainCycles == 4
\* distinct failed-login pairs fed from the generator's pools
MaxPairs == 1

(***************************************************************************)
(* Python values.                                                          *)
(***************************************************************************)
None == "<None>"

Null == [py_none |-> TRUE]

\* str(v) as an f-string formats it
Str(v) == IF v = None THEN "None" ELSE v

\* d.get(k, default)
Get(d, k, default) == IF k \in DOMAIN d THEN d[k] ELSE default

\* bool(d) of a dict-or-None value
Truthy(d) == d # Null /\ DOMAIN d # {}

\* x in list
InList(x, list) == \E i \in 1..Len(list) : list[i] = x

\* the element of a one-element set: The({ body : v \in {value} }) is body
\* with v standing for the value, computed once
The(S) == CHOOSE x \in S : TRUE

Min(a, b) == IF a < b THEN a ELSE b

\* str(n) of a small non-negative integer
IntStr(n) ==
    LET digit(d) == CASE d = 0 -> "0" [] d = 1 -> "1" [] d = 2 -> "2"
                      [] d = 3 -> "3" [] d = 4 -> "4" [] d = 5 -> "5"
                      [] d = 6 -> "6" [] d = 7 -> "7" [] d = 8 -> "8"
                      [] d = 9 -> "9"
    IN  IF n < 10 THEN digit(n) ELSE digit(n \div 10) \o digit(n % 10)

\* sep.join(list)
RECURSIVE Join(_, _)
Join(sep, list) ==
    IF Len(list) = 0 THEN ""
    ELSE IF Len(list) = 1 THEN list[1]
    ELSE list[1] \o sep \o Join(sep, Tail(list))

\* the characters of the strings whose contents the code inspects
Chars(s) ==
    CASE s = "unauthorized access" ->
         <<"u", "n", "a", "u", "t", "h", "o", "r", "i", "z", "e", "d", " ", "a", "c", "c", "e", "s", "s">>
      [] s = "privilege escalation" ->
         <<"p", "r", "i", "v", "i", "l", "e", "g", "e", " ", "e", "s", "c", "a", "l", "a", "t", "i", "o", "n">>
      [] s = "data exfiltration" ->
         <<"d", "a", "t", "a", " ", "e", "x", "f", "i", "l", "t", "r", "a", "t", "i", "o", "n">>
      [] s = "malware" ->
         <<"m", "a", "l", "w", "a", "r", "e">>
      [] s = "code injection" ->
         <<"c", "o", "d", "e", " ", "i", "n", "j", "e", "c", "t", "i", "o", "n">>
      [] s = "backdoor" ->
         <<"b", "a", "c", "k", "d", "o", "o", "r">>
      [] s = "rootkit" ->
         <<"r", "o", "o", "t", "k", "i", "t">>
      [] s = "brute_force" ->
         <<"b", "r", "u", "t", "e", "_", "f", "o", "r", "c", "e">>
      [] s = "suspicious" ->
         <<"s", "u", "s", "p", "i", "c", "i", "o", "u", "s">>
      [] s = "anomalous" ->
         <<"a", "n", "o", "m", "a", "l", "o", "u", "s">>
      [] s = "unrecognized" ->
         <<"u", "n", "r", "e", "c", "o", "g", "n", "i", "z", "e", "d">>
      [] s = "multiple failed" ->
         <<"m", "u", "l", "t", "i", "p", "l", "e", " ", "f", "a", "i", "l", "e", "d">>
      [] s = "unusual activity" ->
         <<"u", "n", "u", "s", "u", "a", "l", " ", "a", "c", "t", "i", "v", "i", "t", "y">>
      [] s = "User successfully logged in" ->
         <<"U", "s", "e", "r", " ", "s", "u", "c", "c", "e", "s", "s", "f", "u", "l", "l", "y", " ", "l", "o", "g", "g", "e", "d", " ", "i", "n">>
      [] s = "Authorized API call executed" ->
         <<"A", "u", "t", "h", "o", "r", "i", "z", "e", "d", " ", "A", "P", "I", " ", "c", "a", "l", "l", " ", "e", "x", "e", "c", "u", "t", "e", "d">>
      [] s = "File accessed successfully" ->
         <<"F", "i", "l", "e", " ", "a", "c", "c", "e", "s", "s", "e", "d", " ", "s", "u", "c", "c", "e", "s", "s", "f", "u", "l", "l", "y">>
      [] s = "System configuration updated" ->
         <<"S", "y", "s", "t", "e", "m", " ", "c", "o", "n", "f", "i", "g", "u", "r", "a", "t", "i", "o", "n", " ", "u", "p", "d", "a", "t", "e", "d">>
      [] s = "Multiple failed login attempts detected" ->
         <<"M", "u", "l", "t", "i", "p", "l", "e", " ", "f", "a", "i", "l", "e", "d", " ", "l", "o", "g", "i", "n", " ", "a", "t", "t", "e", "m", "p", "t", "s", " ", "d", "e", "t", "e", "c", "t", "e", "d">>
      [] s = "Unauthorized access attempt to restricted resource" ->
         <<"U", "n", "a", "u", "t", "h", "o", "r", "i", "z", "e", "d", " ", "a", "c", "c", "e", "s", "s", " ", "a", "t", "t", "e", "m", "p", "t", " ", "t", "o", " ", "r", "e", "s", "t", "r", "i", "c", "t", "e", "d", " ", "r", "e", "s", "o", "u", "r", "c", "e">>
      [] s = "API call from unrecognized source" ->
         <<"A", "P", "I", " ", "c", "a", "l", "l", " ", "f", "r", "o", "m", " ", "u", "n", "r", "e", "c", "o", "g", "n", "i", "z", "e", "d", " ", "s", "o", "u", "r", "c", "e">>
      [] s = "Large data transfer to external location" ->
         <<"L", "a", "r", "g", "e", " ", "d", "a", "t", "a", " ", "t", "r", "a", "n", "s", "f", "e", "r", " ", "t", "o", " ", "e", "x", "t", "e", "r", "n", "a", "l", " ", "l", "o", "c", "a", "t", "i", "o", "n">>
      [] s = "Malicious code detected in system" ->
         <<"M", "a", "l", "i", "c", "i", "o", "u", "s", " ", "c", "o", "d", "e", " ", "d", "e", "t", "e", "c", "t", "e", "d", " ", "i", "n", " ", "s", "y", "s", "t", "e", "m">>
      [] s = "Suspicious MALWARE upload" ->
         <<"S", "u", "s", "p", "i", "c", "i", "o", "u", "s", " ", "M", "A", "L", "W", "A", "R", "E", " ", "u", "p", "l", "o", "a", "d">>
      [] s = "" ->
         <<>>

\* str.lower() on one character
LowerChar(c) ==
    CASE c = "A" -> "a" [] c = "B" -> "b" [] c = "C" -> "c" [] c = "D" -> "d"
      [] c = "E" -> "e" [] c = "F" -> "f" [] c = "G" -> "g" [] c = "H" -> "h"
      [] c = "I" -> "i" [] c = "J" -> "j" [] c = "K" -> "k" [] c = "L" -> "l"
      [] c = "M" -> "m" [] c = "N" -> "n" [] c = "O" -> "o" [] c = "P" -> "p"
      [] c = "Q" -> "q" [] c = "R" -> "r" [] c = "S" -> "s" [] c = "T" -> "t"
      [] c = "U" -> "u" [] c = "V" -> "v" [] c = "W" -> "w" [] c = "X" -> "x"
      [] c = "Y" -> "y" [] c = "Z" -> "z" [] OTHER -> c

\* str.lower()
RECURSIVE lower(_)
lower(cs) ==
    IF Len(cs) = 0 THEN << >>
    ELSE << LowerChar(Head(cs)) >> \o lower(Tail(cs))

\* keyword in description, on characters
Contains(kw, cs) ==
    \E i \in 0..(Len(cs) - Len(kw)) : SubSeq(cs, i + 1, i + Len(kw)) = kw

(***************************************************************************)
(* SecurityMonitor: configuration (security_monitor.py, __init__).         *)
(***************************************************************************)
max_failed_attempts == 3

critical_keywords ==
    << "unauthorized access", "privilege escalation", "data exfiltration",
       "malware", "code injection", "backdoor", "rootkit" >>

suspicious_keywords ==
    << "brute_force", "suspicious", "anomalous", "unrecognized",
       "multiple failed", "unusual activity" >>

blocked_ips == << "203.0.113.45", "185.220.101.182", "94.142.241.111" >>

restricted_resources ==
    << "admin_panel", "database_service", "security_config", "backup_service" >>

high_risk_users == << "temp_user", "guest_user", "unknown_user", "backdoor_user" >>

severity_levels == [info |-> 1, warning |-> 2, high |-> 3, critical |-> 4]

(***************************************************************************)
(* SecurityMonitor: the detector rules.  Each yields a candidate or Null.  *)
(***************************************************************************)
Candidate(type, desc, score, method) ==
    [threat_type |-> type, description |-> desc, risk_score |-> score,
     detection_method |-> method]

\* index of the first keyword of the list found in the description, 0 if none
FirstKeyword(keywords, description) ==
    IF \A i \in 1..Len(keywords) : ~Contains(Chars(keywords[i]), description)
    THEN 0
    ELSE CHOOSE i \in 1..Len(keywords) :
           /\ Contains(Chars(keywords[i]), description)
           /\ \A j \in 1..(i - 1) : ~Contains(Chars(keywords[j]), description)

\* faulty variant of check_threat_keywords: the description is not lowercased
check_threat_keywords_case_sensitive(event) ==
    The({ The({ IF c # 0
                THEN Candidate("KEYWORD_THREAT",
                               "Critical security keyword detected: '"
                                   \o critical_keywords[c] \o "'",
                               9, "keyword_analysis")
                ELSE The({ IF s # 0
                           THEN Candidate("SUSPICIOUS_ACTIVITY",
                                          "Suspicious activity keyword detected: '"
                                              \o suspicious_keywords[s] \o "'",
                                          6, "keyword_analysis")
                           ELSE Null :
                           s \in {FirstKeyword(suspicious_keywords, description)} }) :
                c \in {FirstKeyword(critical_keywords, description)} }) :
          description \in {Chars(Get(event, "description", ""))} })

check_threat_keywords(event) ==
    The({ The({ IF c # 0
                THEN Candidate("KEYWORD_THREAT",
                               "Critical security keyword detected: '"
                                   \o critical_keywords[c] \o "'",
                               9, "keyword_analysis")
                ELSE The({ IF s # 0
                           THEN Candidate("SUSPICIOUS_ACTIVITY",
                                          "Suspicious activity keyword detected: '"
                                              \o suspicious_keywords[s] \o "'",
                                          6, "keyword_analysis")
                           ELSE Null :
                           s \in {FirstKeyword(suspicious_keywords, description)} }) :
                c \in {FirstKeyword(critical_keywords, description)} }) :
          description \in {lower(Chars(Get(event, "description", "")))} })

check_suspicious_ip(event) ==
    LET source_ip == Get(event, "source_ip", None)
    IN  IF InList(source_ip, blocked_ips)
        THEN Candidate("MALICIOUS_IP",
                       "Request from known malicious IP: " \o Str(source_ip),
                       8, "ip_reputation")
        ELSE Null

\* faulty variant of check_suspicious_user: scored like a blocked address
check_suspicious_user_scored_as_ip(event) ==
    LET user_id == Get(event, "user_id", None)
    IN  IF InList(user_id, high_risk_users)
        THEN Candidate("HIGH_RISK_USER",
                       "Activity from high-risk user account: " \o Str(user_id),
                       8, "user_profile_analysis")
        ELSE Null

check_suspicious_user(event) ==
    LET user_id == Get(event, "user_id", None)
    IN  IF InList(user_id, high_risk_users)
        THEN Candidate("HIGH_RISK_USER",
                       "Activity from high-risk user account: " \o Str(user_id),
                       7, "user_profile_analysis")
        ELSE Null

check_restricted_resource(event) ==
    LET resource == Get(event, "resource", None)
    IN  IF InList(resource, restricted_resources)
        THEN Candidate("RESTRICTED_RESOURCE_ACCESS",
                       "Access attempt to restricted resource: " \o Str(resource),
                       7, "resource_access_control")
        ELSE Null

\* the key of the failed-login map: f"{user_id}@{source_ip}"
LoginKey(event) ==
    Str(Get(event, "user_id", None)) \o "@" \o Str(Get(event, "source_ip", None))

\* faulty variant of failed_login_update: events of every type are counted
failed_login_update_any_type(event, attempts) ==
    LET key == LoginKey(event)
        zeroed == IF key \in DOMAIN attempts
                  THEN attempts
                  ELSE [k \in DOMAIN attempts \cup {key} |->
                           IF k = key THEN 0 ELSE attempts[k]]
    IN  [zeroed EXCEPT ![key] = @ + 1]

\* the map after the rule has looked at the event
failed_login_update(event, attempts) ==
    IF Get(event, "event_type", None) # "failed_login"
    THEN attempts
    ELSE LET key == LoginKey(event)
             zeroed == IF key \in DOMAIN attempts
                       THEN attempts
                       ELSE [k \in DOMAIN attempts \cup {key} |->
                                IF k = key THEN 0 ELSE attempts[k]]
         IN  [zeroed EXCEPT ![key] = @ + 1]

\* faulty variant of check_failed_login_pattern: fires only when the count equals
\* the threshold
check_failed_login_pattern_once(event, attempts) ==
    IF Get(event, "event_type", None) # "failed_login"
    THEN Null
    ELSE LET after == failed_login_update(event, attempts)
             key == LoginKey(event)
         IN  IF after[key] = max_failed_attempts
             THEN Candidate("BRUTE_FORCE_ATTACK",
                            "Multiple failed login attempts detected ("
                                \o IntStr(after[key]) \o " attempts)",
                            8, "behavioral_analysis")
             ELSE Null

\* faulty variant of check_failed_login_pattern: an event of any other type
\* fires on the count already stored for its pair
check_failed_login_pattern_any_type(event, attempts) ==
    LET after == failed_login_update(event, attempts)
        key == LoginKey(event)
    IN  IF key \in DOMAIN after /\ after[key] >= max_failed_attempts
        THEN Candidate("BRUTE_FORCE_ATTACK",
                       "Multiple failed login attempts detected ("
                           \o IntStr(after[key]) \o " attempts)",
                       8, "behavioral_analysis")
        ELSE Null

\* the rule's candidate, read off the updated map
check_failed_login_pattern(event, attempts) ==
    IF Get(event, "event_type", None) # "failed_login"
    THEN Null
    ELSE LET after == failed_login_update(event, attempts)
             key == LoginKey(event)
         IN  IF after[key] >= max_failed_attempts
             THEN Candidate("BRUTE_FORCE_ATTACK",
                            "Multiple failed login attempts detected ("
                                \o IntStr(after[key]) \o " attempts)",
                            8, "behavioral_analysis")
             ELSE Null

check_event_severity(event) ==
    LET severity == Get(event, "severity", "info")
        severity_score == Get(severity_levels, severity, 1)
    IN  IF severity_score >= 4
        THEN Candidate("CRITICAL_SECURITY_EVENT",
                       "Critical severity event detected: "
                           \o Str(Get(event, "description", None)),
                       9, "severity_analysis")
        ELSE IF severity_score >= 3
        THEN Candidate("HIGH_RISK_EVENT",
                       "High severity event detected: "
                           \o Str(Get(event, "description", None)),
                       7, "severity_analysis")
        ELSE Null

\* faulty variant of check_threat_indicators: the score is not clamped
check_threat_indicators_unclamped(event) ==
    LET threat_indicators == Get(event, "threat_indicators", <<>>)
    IN  IF Len(threat_indicators) = 0
        THEN Null
        ELSE Candidate("THREAT_INDICATORS_DETECTED",
                       "Multiple threat indicators present: "
                           \o Join(", ", threat_indicators),
                       5 + Len(threat_indicators) * 2,
                       "threat_intelligence")

check_threat_indicators(event) ==
    LET threat_indicators == Get(event, "threat_indicators", <<>>)
    IN  IF Len(threat_indicators) = 0
        THEN Null
        ELSE Candidate("THREAT_INDICATORS_DETECTED",
                       "Multiple threat indicators present: "
                           \o Join(", ", threat_indicators),
                       Min(10, 5 + Len(threat_indicators) * 2),
                       "threat_intelligence")

(***************************************************************************)
(* SecurityMonitor: telemetry forwarding.  The collaborator is an input:   *)
(* tel maps each of its calls to "ok", "false" (returns False, as when the *)
(* client is unavailable) or "raise".                                      *)
(***************************************************************************)
TelemetryCalls ==
    { "send_threat_alert", "send_security_metric", "trigger_lambda_response",
      "create_log_stream", "send_security_log" }

\* the calls made, in order, until one raises; failed iff one raised
RECURSIVE RunCalls(_, _)
RunCalls(planned, tel) ==
    IF Len(planned) = 0 THEN [calls |-> <<>>, failed |-> FALSE]
    ELSE IF tel[planned[1]] = "raise"
    THEN [calls |-> <<planned[1]>>, failed |-> TRUE]
    ELSE LET rest == RunCalls(Tail(planned), tel)
         IN  [calls |-> <<planned[1]>> \o rest.calls, failed |-> rest.failed]

\* the collaborator calls _send_to_aws makes for a threat
ThreatCalls(threat_info) ==
    << "send_threat_alert", "send_security_metric" >>
        \o (IF Get(threat_info, "risk_score", 0) >= 8
            THEN << "trigger_lambda_response" >> ELSE << >>)
        \o << "create_log_stream", "send_security_log" >>

\* faulty variant of send_to_aws: no try/except around the collaborator calls
send_to_aws_uncaught(event, threat_info, tel) ==
    LET r == RunCalls(ThreatCalls(threat_info), tel)
    IN  [calls |-> r.calls, error_logged |-> FALSE,
         raised |-> IF r.failed THEN "Exception" ELSE "none"]

\* try: ... except Exception: logger.error(...)
send_to_aws(event, threat_info, tel) ==
    LET r == RunCalls(ThreatCalls(threat_info), tel)
    IN  [calls |-> r.calls, error_logged |-> r.failed, raised |-> "none"]

send_event_metrics(event, tel) ==
    LET r == RunCalls(<< "send_security_metric" >>, tel)
    IN  [calls |-> r.calls, error_logged |-> r.failed, raised |-> "none"]

(***************************************************************************)
(* SecurityMonitor.analyze_event.                                          *)
(***************************************************************************)
\* event['k'] for each k read without a default: KeyError when one is missing
log_event_analysis(event) ==
    IF {"event_type", "user_id", "source_ip"} \subseteq DOMAIN event
    THEN "none" ELSE "KeyError"

log_threat_detection(threat_info, event) ==
    IF {"event_id", "user_id", "source_ip", "resource"} \subseteq DOMAIN event
    THEN "none" ELSE "KeyError"

\* faulty variant of Replace: the later rule also wins a tie
Replace_on_tie(threat_info, candidate) ==
    IF candidate # Null
       /\ (threat_info = Null \/ candidate.risk_score >= threat_info.risk_score)
    THEN candidate ELSE threat_info

\* if candidate and (not threat_info or candidate.score > threat_info.score)
Replace(threat_info, candidate) ==
    IF candidate # Null
       /\ (threat_info = Null \/ candidate.risk_score > threat_info.risk_score)
    THEN candidate ELSE threat_info

\* the seven rules' candidates, in the order analyze_event runs them
RuleCandidates(event, attempts) ==
    << check_threat_keywords(event),
       check_suspicious_ip(event),
       check_suspicious_user(event),
       check_restricted_resource(event),
       check_failed_login_pattern(event, attempts),
       check_event_severity(event),
       check_threat_indicators(event) >>

\* threat_info after the first n checks, each replacing it or not in turn
RECURSIVE RunRules(_, _)
RunRules(cands, n) ==
    IF n = 0 THEN Null
    ELSE The({ Replace(threat_info, cands[n]) :
               threat_info \in {RunRules(cands, n - 1)} })

Outcome(ret, raised, cands, sent, attempts) ==
    [ret |-> ret, raised |-> raised, cands |-> cands,
     tel_calls |-> sent.calls, tel_error |-> sent.error_logged,
     attempts |-> attempts]

NothingSent == [calls |-> << >>, error_logged |-> FALSE, raised |-> "none"]

\* the outcome of analyze_event(event) on the map `attempts` with the
\* collaborator behaving as tel: the value returned or the exception raised,
\* the map afterwards, the rules' candidates and the telemetry trace
analyze_event(event, attempts, tel) ==
    IF ~Truthy(event)
    THEN Outcome(Null, "none", << >>, NothingSent, attempts)
    ELSE IF log_event_analysis(event) # "none"
    THEN Outcome(Null, log_event_analysis(event), << >>, NothingSent, attempts)
    ELSE
      The({ The({ IF threat_info # Null
                     /\ log_threat_detection(threat_info, event) # "none"
                  THEN Outcome(Null, log_threat_detection(threat_info, event),
                               cands, NothingSent, after)
                  ELSE The({ IF sent.raised # "none"
                             THEN Outcome(Null, sent.raised, cands, sent, after)
                             ELSE Outcome(threat_info, "none", cands, sent, after) :
                             sent \in { IF threat_info # Null
                                        THEN send_to_aws(event, threat_info, tel)
                                        ELSE send_event_metrics(event, tel) } }) :
                  threat_info \in {RunRules(cands, Len(cands))},
                  after \in {failed_login_update(event, attempts)} }) :
            cands \in {RuleCandidates(event, attempts)} })

\* faulty variant of reset_monitoring_state: the counts are kept
reset_monitoring_state_keeps_counts(attempts) == attempts

\* reset_monitoring_state: failed_login_attempts.clear()
reset_monitoring_state(attempts) == << >>

(***************************************************************************)
(* ResponseHandler (response_handler.py).                                  *)
(***************************************************************************)
Policy(actions, priority, escalation_required) ==
    [actions |-> actions, priority |-> priority,
     escalation_required |-> escalation_required]

response_actions ==
    [ KEYWORD_THREAT |->
          Policy(<< "quarantine_session", "alert_security_team", "log_incident" >>,
                 "high", TRUE),
      MALICIOUS_IP |->
          Policy(<< "block_ip", "terminate_connections", "alert_security_team" >>,
                 "high", TRUE),
      HIGH_RISK_USER |->
          Policy(<< "suspend_user", "audit_user_activity", "notify_admin" >>,
                 "medium", TRUE),
      RESTRICTED_RESOURCE_ACCESS |->
          Policy(<< "block_access", "isolate_resource", "alert_security_team" >>,
                 "high", TRUE),
      BRUTE_FORCE_ATTACK |->
          Policy(<< "block_ip", "lockout_account", "increase_monitoring" >>,
                 "high", TRUE),
      CRITICAL_SECURITY_EVENT |->
          Policy(<< "emergency_isolation", "executive_notification",
                    "forensic_imaging" >>, "critical", TRUE),
      HIGH_RISK_EVENT |->
          Policy(<< "increase_monitoring", "isolate_affected_systems",
                    "alert_security_team" >>, "high", TRUE),
      SUSPICIOUS_ACTIVITY |->
          Policy(<< "increase_monitoring", "log_for_analysis", "notify_admin" >>,
                 "medium", FALSE),
      THREAT_INDICATORS_DETECTED |->
          Policy(<< "quarantine_system", "deep_scan", "alert_security_team" >>,
                 "high", TRUE) ]

\* faulty variant of get_default_response: the fallback does not escalate
get_default_response_no_escalation ==
    Policy(<< "log_incident", "alert_security_team", "increase_monitoring" >>,
           "medium", FALSE)

get_default_response ==
    Policy(<< "log_incident", "alert_security_team", "increase_monitoring" >>,
           "medium", TRUE)

\* the action tags that have a dedicated simulation routine
action_simulations ==
    [ block_ip |-> "_simulate_ip_block",
      suspend_user |-> "_simulate_user_suspension",
      quarantine_session |-> "_simulate_session_quarantine",
      alert_security_team |-> "_simulate_security_alert",
      terminate_connections |-> "_simulate_connection_termination",
      isolate_resource |-> "_simulate_resource_isolation",
      lockout_account |-> "_simulate_account_lockout",
      increase_monitoring |-> "_simulate_monitoring_increase",
      emergency_isolation |-> "_simulate_emergency_isolation",
      forensic_imaging |-> "_simulate_forensic_imaging",
      deep_scan |-> "_simulate_deep_scan",
      audit_user_activity |-> "_simulate_user_audit",
      log_incident |-> "_simulate_incident_logging",
      notify_admin |-> "_simulate_admin_notification",
      executive_notification |-> "_simulate_executive_notification" ]

\* one executed step of a response: what ran, and on which action tag
Step(routine, action) == << routine, action >>

\* faulty variant of simulate_action_execution: a tag without a routine is
\* looked up with action_simulations[action]
simulate_action_execution_strict(action) ==
    Step(IF action \in DOMAIN action_simulations
         THEN action_simulations[action] ELSE "KeyError", action)

\* action_simulations.get(action, <generic stub>)()
simulate_action_execution(action) ==
    Step(Get(action_simulations, action, "generic"), action)

\* faulty variant of execute_response_actions: the list is walked backwards
execute_response_actions_reversed(response_config) ==
    LET actions == Get(response_config, "actions", << >>)
    IN  [i \in 1..Len(actions) |->
            simulate_action_execution(actions[Len(actions) + 1 - i])]

\* for action in actions: simulate it
execute_response_actions(response_config) ==
    LET actions == Get(response_config, "actions", << >>)
    IN  [i \in 1..Len(actions) |-> simulate_action_execution(actions[i])]

\* the history after _log_response has appended its record
\* faulty variant of log_response: the record is put in front of the history
log_response_in_front(threat_info, event, response_config, history) ==
    << [threat_type |-> Get(threat_info, "threat_type", None),
        event_id |-> Get(event, "event_id", None),
        risk_score |-> Get(threat_info, "risk_score", None),
        actions_executed |-> Get(response_config, "actions", << >>),
        priority |-> Get(response_config, "priority", None),
        escalation_required |-> Get(response_config, "escalation_required", None)] >>
        \o history

log_response(threat_info, event, response_config, history) ==
    Append(history,
           [threat_type |-> Get(threat_info, "threat_type", None),
            event_id |-> Get(event, "event_id", None),
            risk_score |-> Get(threat_info, "risk_score", None),
            actions_executed |-> Get(response_config, "actions", << >>),
            priority |-> Get(response_config, "priority", None),
            escalation_required |-> Get(response_config, "escalation_required", None)])

escalate_incident == << Step("_escalate_incident", "") >>

\* faulty variant of handle_threat_guard: only the threat is checked
handle_threat_guard_threat_only(threat_info, original_event) ==
    ~Truthy(threat_info)

\* if not threat_info or not original_event
handle_threat_guard(threat_info, original_event) ==
    ~Truthy(threat_info) \/ ~Truthy(original_event)

\* faulty variant of handle_threat_actions: the last action of the policy is skipped
handle_threat_actions_short(response_config) ==
    LET all == execute_response_actions(response_config)
    IN  SubSeq(all, 1, Len(all) - 1)

handle_threat_actions(response_config) ==
    execute_response_actions(response_config)

\* the outcome of handle_threat(threat_info, original_event): the value
\* returned, the steps executed in order, and the history afterwards
handle_threat(threat_info, original_event, history) ==
    IF handle_threat_guard(threat_info, original_event)
    THEN [ret |-> Null, steps |-> << Step("logger.error", "") >>,
          history |-> history]
    ELSE LET threat_type == Get(threat_info, "threat_type", None)
             response_config ==
                 Get(response_actions, threat_type, get_default_response)
         IN  [ret |-> Null,
              steps |-> handle_threat_actions(response_config)
                          \o << Step("_log_response", "") >>
                          \o (IF Get(response_config, "escalation_required", FALSE)
                              THEN escalate_incident ELSE << >>),
              history |-> log_response(threat_info, original_event,
                                       response_config, history)]

\* the records of the history, by position
Records(history) == 1..Len(history)

\* faulty variant of get_response_statistics: a threat type seen again does
\* not add to its count
get_response_statistics_first_seen(history) ==
    IF Len(history) = 0
    THEN [total_responses |-> 0]
    ELSE LET types == {history[i].threat_type : i \in Records(history)}
             priorities == {history[i].priority : i \in Records(history)}
         IN  [total_responses |-> Len(history),
              by_threat_type |-> [t \in types |-> 1],
              by_priority |->
                  [p \in priorities |->
                      Cardinality({i \in Records(history) :
                                      history[i].priority = p})],
              escalations |->
                  Cardinality({i \in Records(history) :
                                  history[i].escalation_required = TRUE})]

\* one pass over the history, counting per threat type, per priority and
\* the escalations
get_response_statistics(history) ==
    IF Len(history) = 0
    THEN [total_responses |-> 0]
    ELSE LET types == {history[i].threat_type : i \in Records(history)}
             priorities == {history[i].priority : i \in Records(history)}
         IN  [total_responses |-> Len(history),
              by_threat_type |->
                  [t \in types |->
                      Cardinality({i \in Records(history) :
                                      history[i].threat_type = t})],
              by_priority |->
                  [p \in priorities |->
                      Cardinality({i \in Records(history) :
                                      history[i].priority = p})],
              escalations |->
                  Cardinality({i \in Records(history) :
                                  history[i].escalation_required = TRUE})]

\* faulty variant of clear_response_history: only the in-flight map is emptied
clear_response_history_keeps_records(history, active) ==
    [history |-> history, active |-> << >>]

\* clear_response_history: both containers emptied
clear_response_history(history, active) ==
    [history |-> << >>, active |-> << >>]

(***************************************************************************)
(* CloudEventGenerator (event_generator.py).                               *)
(***************************************************************************)
Template(type, sev, desc, ip, user, res) ==
    [event_type |-> type, severity |-> sev, description |-> desc,
     source_ip |-> ip, user_id |-> user, resource |-> res]

normal_events ==
    << Template("user_login", "info", "User successfully logged in",
                None, None, "authentication_service"),
       Template("api_call", "info", "Authorized API call executed",
                None, None, "compute_service"),
       Template("file_access", "info", "File accessed successfully",
                None, None, "storage_service"),
       Template("system_update", "info", "System configuration updated",
                "internal", "system", "management_service") >>

threat_events ==
    << Template("failed_login", "warning",
                "Multiple failed login attempts detected",
                None, None, "authentication_service")
           @@ [threat_indicators |-> << "brute_force", "suspicious_ip" >>],
       Template("unauthorized_access", "critical",
                "Unauthorized access attempt to restricted resource",
                None, None, "admin_panel")
           @@ [threat_indicators |-> << "privilege_escalation", "unauthorized_access" >>],
       Template("suspicious_api_call", "high",
                "API call from unrecognized source",
                None, None, "data_service")
           @@ [threat_indicators |-> << "anomalous_behavior", "suspicious_api_usage" >>],
       Template("data_exfiltration", "critical",
                "Large data transfer to external location",
                None, None, "database_service")
           @@ [threat_indicators |-> << "data_exfiltration", "suspicious_transfer" >>],
       Template("malware_detection", "critical",
                "Malicious code detected in system",
                None, None, "endpoint_security")
           @@ [threat_indicators |-> << "malware", "code_injection" >>] >>

normal_ips ==
    << "192.168.1.10", "192.168.1.15", "192.168.1.20", "192.168.1.25",
       "10.0.0.5", "10.0.0.10", "10.0.0.15", "172.16.0.5" >>

suspicious_ips ==
    << "203.0.113.45", "198.51.100.23", "203.0.113.78", "198.51.100.67",
       "185.220.101.182", "185.220.102.8", "94.142.241.111" >>

normal_users ==
    << "user001", "user002", "user003", "admin001", "service_account_01",
       "developer_01", "analyst_01", "manager_01" >>

suspicious_users ==
    << "temp_user", "guest_user", "unknown_user", "test_account", "backdoor_user" >>

\* a or b, on strings
Or(a, b) == IF a = None \/ a = "" THEN b ELSE a

\* faulty variant of generate_event: the template's threat_indicators are not
\* copied into the event
generate_event_without_indicators(draw) ==
    LET event_template == IF draw.is_threat
                          THEN threat_events[draw.template]
                          ELSE normal_events[draw.template]
        source_ip == IF draw.is_threat
                     THEN suspicious_ips[draw.ip] ELSE normal_ips[draw.ip]
        user_id == IF draw.is_threat
                   THEN suspicious_users[draw.user] ELSE normal_users[draw.user]
    IN  [event_id |-> "evt_100000",
         event_type |-> event_template["event_type"],
         severity |-> event_template["severity"],
         description |-> event_template["description"],
         source_ip |-> Or(Get(event_template, "source_ip", None), source_ip),
         user_id |-> Or(Get(event_template, "user_id", None), user_id),
         resource |-> event_template["resource"],
         metadata |-> [region |-> "us-east-1",
                       service_version |-> "v1.0",
                       session_id |-> "sess_1000"]]

\* generate_event with its random draws made explicit: draw.is_threat,
\* draw.template (an index into the chosen template list), draw.ip and
\* draw.user (indexes into the chosen pools)
generate_event(draw) ==
    LET event_template == IF draw.is_threat
                          THEN threat_events[draw.template]
                          ELSE normal_events[draw.template]
        source_ip == IF draw.is_threat
                     THEN suspicious_ips[draw.ip] ELSE normal_ips[draw.ip]
        user_id == IF draw.is_threat
                   THEN suspicious_users[draw.user] ELSE normal_users[draw.user]
        event == [event_id |-> "evt_100000",
                  event_type |-> event_template["event_type"],
                  severity |-> event_template["severity"],
                  description |-> event_template["description"],
                  source_ip |-> Or(Get(event_template, "source_ip", None), source_ip),
                  user_id |-> Or(Get(event_template, "user_id", None), user_id),
                  resource |-> event_template["resource"],
                  metadata |-> [region |-> "us-east-1",
                                service_version |-> "v1.0",
                                session_id |-> "sess_1000"]]
    IN  IF "threat_indicators" \in DOMAIN event_template
        THEN event @@ [threat_indicators |-> event_template["threat_indicators"]]
        ELSE event

(***************************************************************************)
(* Inputs of the rule engine.                                              *)
(***************************************************************************)
EventFields ==
    { "event_id", "event_type", "severity", "description", "source_ip",
      "user_id", "resource", "threat_indicators", "metadata" }

Metadata ==
    [region |-> "us-east-1", service_version |-> "v1.0", session_id |-> "sess_1000"]

\* an event dict with every field; threat_indicators, which only threat
\* templates carry, is present iff indicators.present
EventOf(type, sev, desc, ip, user, res, indicators) ==
    LET full == [event_id |-> "evt_100000", event_type |-> type,
                 severity |-> sev, description |-> desc, source_ip |-> ip,
                 user_id |-> user, resource |-> res,
                 threat_indicators |-> indicators.tags, metadata |-> Metadata]
        keys == IF indicators.present
                THEN EventFields ELSE EventFields \ {"threat_indicators"}
    IN  [k \in keys |-> full[k]]

NoIndicators == [present |-> FALSE, tags |-> << >>]

Indicators(tags) == [present |-> TRUE, tags |-> tags]

\* the dict with only the keys of `keep`
Restrict(d, keep) == [k \in DOMAIN d \cap keep |-> d[k]]

\* {**d, **overrides}
Override(d, overrides) ==
    [k \in DOMAIN d \cup DOMAIN overrides |->
        IF k \in DOMAIN overrides THEN overrides[k] ELSE d[k]]

\* a benign event: no rule's condition holds
BenignEvent ==
    EventOf("user_login", "info", "User successfully logged in", "10.0.0.5",
            "user001", "authentication_service", NoIndicators)

\* single-field changes to an event, each making some rule's condition hold
\* (or, for the description and indicators, choosing which candidate it yields)
Deviations ==
    << [event_type |-> "failed_login"],
       [severity |-> "high"],
       [severity |-> "critical"],
       [description |-> "Unauthorized access attempt to restricted resource"],
       [description |-> "Multiple failed login attempts detected"],
       [description |-> "Suspicious MALWARE upload"],
       [source_ip |-> "203.0.113.45"],
       [user_id |-> "temp_user"],
       [resource |-> "admin_panel"],
       [threat_indicators |-> << "brute_force" >>],
       [threat_indicators |-> << "privilege_escalation", "unauthorized_access" >>],
       [threat_indicators |-> << "malware", "code_injection", "suspicious_transfer" >>] >>

\* chosen deviations change distinct fields
Compatible(chosen) ==
    \A i, j \in chosen : i # j => DOMAIN Deviations[i] # DOMAIN Deviations[j]

RECURSIVE Deviate(_, _)
Deviate(event, chosen) ==
    IF chosen = {} THEN event
    ELSE LET i == CHOOSE i \in chosen : TRUE
         IN  Deviate(Override(event, Deviations[i]), chosen \ {i})

\* the unauthorized-access event of the threat template pool, in which
\* nearly every rule fires, for a normal and a high-risk user and with no,
\* an empty, one, two and three threat indicators
ScenarioEvents ==
    { EventOf("unauthorized_access", "critical",
              "Unauthorized access attempt to restricted resource",
              "203.0.113.45", user, "admin_panel", indicators) :
        user \in {"user001", "temp_user"},
        indicators \in
            { NoIndicators, Indicators(<< >>),
              Indicators(<< "privilege_escalation" >>),
              Indicators(<< "privilege_escalation", "unauthorized_access" >>),
              Indicators(<< "privilege_escalation", "unauthorized_access",
                            "malware" >>) } }

\* events that carry every field the data model requires: the benign event
\* with at most MaxDeviations fields changed, and the scenario events
CompleteEvents ==
    { Deviate(BenignEvent, chosen) :
        chosen \in { c \in SUBSET (1..Len(Deviations)) :
                        Cardinality(c) <= MaxDeviations /\ Compatible(c) } }
    \cup ScenarioEvents

\* events with any subset of the fields analyze_event reads missing, the
\* empty dict among them
PartialEvents ==
    { Restrict(EventOf("user_login", "critical",
                       "Multiple failed login attempts detected",
                       "198.51.100.23", "test_account",
                       "authentication_service", Indicators(<< >>)), keep) :
        keep \in SUBSET (EventFields \ {"metadata"}) }

\* the draws of generate_event that take the normal branch, over the whole
\* template, address and user pools
NormalDraws ==
    { [is_threat |-> FALSE, template |-> t, ip |-> i, user |-> u] :
        t \in 1..Len(normal_events), i \in 1..Len(normal_ips),
        u \in 1..Len(normal_users) }

\* every event the generator builds from the normal template pool
NormalPoolEvents == { generate_event(draw) : draw \in NormalDraws }

EventInputs ==
    CompleteEvents \cup PartialEvents \cup NormalPoolEvents \cup {Null}

\* behaviours of the telemetry collaborator
AllCalls(outcome) == [c \in TelemetryCalls |-> outcome]

TelemetryInputs ==
    { AllCalls("ok"), AllCalls("false"),
      [AllCalls("ok") EXCEPT !["send_threat_alert"] = "raise"],
      [AllCalls("false") EXCEPT !["send_security_metric"] = "raise"],
      [AllCalls("ok") EXCEPT !["send_security_log"] = "raise"] }

(***************************************************************************)
(* State.                                                                  *)
(***************************************************************************)
VARIABLES
    failed_login_attempts,  \* SecurityMonitor.failed_login_attempts
    fed,                    \* the failed_login events analysed since the map
                            \* was last empty: how many, their
                            \* (user_id, source_ip) pairs, and whether the
                            \* map was emptied by reset_monitoring_state
    response_history,       \* ResponseHandler.response_history
    active_responses,       \* ResponseHandler.active_responses
    cleared,                \* the clear_response_history calls since a record
                            \* was last appended: how many, and how many
                            \* records the first of them removed
    last,                   \* the call that has just returned: its arguments,
                            \* its result and the state it started from
    monitoring_active,      \* app.py: the pause flag
    stats,                  \* app.py: the stats block
    now,                    \* the clock datetime.now() reads
    bg,                     \* the background_monitoring thread: where it is
                            \* and its locals
    inflight,               \* manual_threat_response requests between their
                            \* read and their write of the stats block
    tally                   \* what has been completed so far: cycles, pipeline
                            \* responses, manual responses, and the stats block
                            \* as of the last completed cycle

coreVars ==
    << failed_login_attempts, fed, response_history, active_responses, cleared,
       last >>

webVars == << monitoring_active, stats, now, bg, inflight, tally >>

\* the web state the pipeline steps of the background thread leave alone
webStatic == << monitoring_active, stats, now, inflight, tally >>

vars == << coreVars, webVars >>

Idle == [op |-> "idle"]

NothingFed == [n |-> 0, pairs |-> {}, reset |-> FALSE]

IsFailedLogin(event) ==
    Truthy(event) /\ Get(event, "event_type", None) = "failed_login"

PairOf(event) == << Get(event, "user_id", None), Get(event, "source_ip", None) >>

NotCleared == [calls |-> 0, dropped |-> 0, responded |-> 0]

\* cleared, once handle_threat has turned the history before into after
ClearedAfter(before, after) ==
    IF after # before
    THEN [NotCleared EXCEPT !.responded = cleared.responded]
    ELSE cleared

\* c, once handle_threat has been called with the threat and the event: the
\* calls since the last clear whose threat and event were both given
RespondedAfter(c, threat_info, original_event) ==
    IF Truthy(threat_info) /\ Truthy(original_event)
    THEN [c EXCEPT !.responded = @ + 1]
    ELSE c

\* fed, once analyze_event has been given the event
FedAfter(event) ==
    IF IsFailedLogin(event)
    THEN [fed EXCEPT !.n = @ + 1, !.pairs = @ \cup {PairOf(event)}]
    ELSE fed

InitCore ==
    /\ failed_login_attempts = << >>
    /\ fed = NothingFed
    /\ response_history = << >>
    /\ active_responses = << >>
    /\ cleared = NotCleared
    /\ last = Idle

(***************************************************************************)
(* The rule engine driven call by call.                                    *)
(***************************************************************************)
\* a call of analyze_event on one of the events, the collaborator behaving
\* in one of the ways tels
Analyze(events, tels) ==
    /\ last = Idle
    /\ \E event \in events, tel \in tels :
         \E out \in {analyze_event(event, failed_login_attempts, tel)} :
             /\ IsFailedLogin(event) => fed.n < MaxFailedLogins
             /\ failed_login_attempts' = out.attempts
             /\ fed' = FedAfter(event)
             /\ last' = [op |-> "analyze_event", event |-> event,
                         before |-> failed_login_attempts, out |-> out]
    /\ UNCHANGED << response_history, active_responses, cleared, webVars >>

AnalyzeEvent == Analyze(EventInputs, TelemetryInputs)

ResetMonitoringState ==
    /\ last = Idle
    /\ failed_login_attempts # << >>
    /\ failed_login_attempts' = reset_monitoring_state(failed_login_attempts)
    /\ fed' = [NothingFed EXCEPT !.reset = TRUE]
    /\ last' = [op |-> "reset_monitoring_state",
                before |-> failed_login_attempts]
    /\ UNCHANGED << response_history, active_responses, cleared, webVars >>

\* the caller goes on to its next call
Return ==
    /\ last # Idle
    /\ last' = Idle
    /\ UNCHANGED << failed_login_attempts, fed, response_history, active_responses, cleared,
                    webVars >>

(***************************************************************************)
(* The response handler driven call by call.                               *)
(***************************************************************************)
\* threats as the rule engine builds them, one per threat type it knows
KnownThreats ==
    { Candidate(type, "detected", score, "rule") :
        << type, score >> \in
            { << "KEYWORD_THREAT", 9 >>, << "MALICIOUS_IP", 8 >>,
              << "HIGH_RISK_USER", 7 >>, << "RESTRICTED_RESOURCE_ACCESS", 7 >>,
              << "BRUTE_FORCE_ATTACK", 8 >>, << "CRITICAL_SECURITY_EVENT", 9 >>,
              << "HIGH_RISK_EVENT", 7 >>, << "SUSPICIOUS_ACTIVITY", 6 >>,
              << "THREAT_INDICATORS_DETECTED", 10 >> } }

\* a type no policy names, a threat dict without threat_type, a threat dict
\* whose risk_score is off the scale, None and {}
ThreatInputs ==
    KnownThreats
        \cup { Candidate("ZERO_DAY_EXPLOIT", "detected", 5, "rule"),
               [description |-> "detected", risk_score |-> 4],
               Candidate("MALICIOUS_IP", "detected", 15, "rule"),
               Null, << >> }

HandledEventInputs ==
    { BenignEvent,
      Restrict(BenignEvent, {"source_ip"}),
      Null, << >> }

\* a call of handle_threat on one of the threats and one of the events
Handle(threats, events) ==
    /\ last = Idle
    /\ \E threat_info \in threats, original_event \in events :
         LET out == handle_threat(threat_info, original_event, response_history)
         IN  /\ Len(out.history) <= MaxHistory
             /\ response_history' = out.history
             /\ cleared' = RespondedAfter(ClearedAfter(response_history, out.history),
                                          threat_info, original_event)
             /\ last' = [op |-> "handle_threat", threat_info |-> threat_info,
                         event |-> original_event,
                         before |-> response_history, out |-> out]
    /\ UNCHANGED << failed_login_attempts, fed, active_responses, webVars >>

HandleThreat == Handle(ThreatInputs, HandledEventInputs)

GetResponseStatistics ==
    /\ last = Idle
    /\ last' = [op |-> "get_response_statistics",
                before |-> response_history,
                out |-> get_response_statistics(response_history)]
    /\ UNCHANGED << failed_login_attempts, fed, response_history, active_responses, cleared,
                    webVars >>

ClearResponseHistory ==
    /\ last = Idle
    /\ cleared.calls < MaxClears
    /\ cleared' = [calls |-> cleared.calls + 1,
                   dropped |-> IF cleared.calls = 0
                               THEN Len(response_history) ELSE cleared.dropped,
                   responded |-> 0]
    /\ LET out == clear_response_history(response_history, active_responses)
       IN  /\ response_history' = out.history
           /\ active_responses' = out.active
    /\ last' = [op |-> "clear_response_history", before |-> response_history]
    /\ UNCHANGED << failed_login_attempts, fed, webVars >>


(***************************************************************************)
(* The web orchestrator (app.py): the background_monitoring thread and the *)
(* request handlers that share the stats block and the pause flag with it. *)
(* Nothing guards the shared state, so a step below is one access to it.   *)
(***************************************************************************)
InitialStats ==
    [events_processed |-> 0, threats_detected |-> 0, responses_executed |-> 0,
     system_health |-> "Active", last_update |-> 0]

\* the thread as initialize_monitoring starts it: at its `while` test
InitialThread ==
    [pc |-> "while", event |-> Null, threat_detected |-> Null, loaded |-> 0,
     start |-> InitialStats, manual_at_start |-> 0, handled |-> 0,
     response_stores |-> 0]

InitWeb ==
    /\ monitoring_active = FALSE
    /\ stats = InitialStats
    /\ now = 0
    /\ bg = InitialThread
    /\ inflight = {}
    /\ tally = [cycles |-> 0, pipeline_responses |-> 0, manual_started |-> 0,
                manual_responses |-> 0, committed |-> InitialStats,
                flag_before |-> << >>]

\* what random.choice may draw from a pool: its first MaxDraw entries
Drawn(pool) == 1..Min(Len(pool), MaxDraw)

GeneratorDraws ==
    { [is_threat |-> TRUE, template |-> t, ip |-> i, user |-> u] :
        t \in Drawn(threat_events), i \in Drawn(suspicious_ips),
        u \in Drawn(suspicious_users) }
    \cup
    { [is_threat |-> FALSE, template |-> t, ip |-> i, user |-> u] :
        t \in Drawn(normal_events), i \in Drawn(normal_ips),
        u \in Drawn(normal_users) }

\* a loop that responds after every event
threat_branch_always(threat_detected) == TRUE

\* the condition of `if threat_detected:` in the monitoring loop
threat_branch(threat_detected) == Truthy(threat_detected)

\* while monitoring_active: ...; event = event_generator.generate_event()
BgLoopTest ==
    /\ bg.pc = "while"
    /\ \/ /\ monitoring_active
          /\ tally.cycles < MaxCycles
          /\ \E draw \in GeneratorDraws :
               bg' = [bg EXCEPT !.pc = "count_event",
                                !.event = generate_event(draw),
                                !.threat_detected = Null,
                                !.start = stats,
                                !.manual_at_start = tally.manual_responses,
                                !.handled = 0,
                                !.response_stores = 0]
          /\ tally' = [tally EXCEPT !.cycles = @ + 1]
       \/ /\ ~monitoring_active
          /\ bg' = [bg EXCEPT !.pc = "exited"]
          /\ UNCHANGED tally
    /\ UNCHANGED << coreVars, monitoring_active, stats, now, inflight >>

\* stats['events_processed'] += 1
BgCountEvent ==
    /\ bg.pc = "count_event"
    /\ stats' = [stats EXCEPT !.events_processed = @ + 1]
    /\ bg' = [bg EXCEPT !.pc = "analyze"]
    /\ UNCHANGED << coreVars, monitoring_active, now, inflight, tally >>

\* threat_detected = security_monitor.analyze_event(event); an exception
\* goes to the loop's except clause, which sleeps and tests the flag again
BgAnalyze ==
    /\ bg.pc = "analyze"
    /\ \E tel \in TelemetryInputs :
         \E out \in {analyze_event(bg.event, failed_login_attempts, tel)} :
             /\ failed_login_attempts' = out.attempts
             /\ fed' = FedAfter(bg.event)
             /\ bg' = [bg EXCEPT
                         !.threat_detected = out.ret,
                         !.pc = IF out.raised # "none" THEN "while"
                                ELSE IF threat_branch(out.ret) THEN "count_threat"
                                ELSE "stamp"]
    /\ UNCHANGED << response_history, active_responses, cleared, last, webStatic >>

\* stats['threats_detected'] += 1
BgCountThreat ==
    /\ bg.pc = "count_threat"
    /\ stats' = [stats EXCEPT !.threats_detected = @ + 1]
    /\ bg' = [bg EXCEPT !.pc = "respond"]
    /\ UNCHANGED << coreVars, monitoring_active, now, inflight, tally >>

\* faulty variant of BgRespond: with the flag switched off the cycle is
\* abandoned before the threat is handled
BgRespond_unless_paused ==
    /\ bg.pc = "respond"
    /\ IF monitoring_active
       THEN /\ response_history' =
                   handle_threat(bg.threat_detected, bg.event,
                                 response_history).history
            /\ cleared' = RespondedAfter(ClearedAfter(response_history, response_history'),
                                       bg.threat_detected, bg.event)
            /\ bg' = [bg EXCEPT !.pc = "load_responses", !.handled = @ + 1]
       ELSE /\ UNCHANGED << response_history, cleared >>
            /\ bg' = [bg EXCEPT !.pc = "while"]
    /\ UNCHANGED << failed_login_attempts, fed, active_responses, last, webStatic >>

\* response_handler.handle_threat(threat_detected, event)
BgRespond ==
    /\ bg.pc = "respond"
    /\ response_history' =
           handle_threat(bg.threat_detected, bg.event, response_history).history
    /\ cleared' = RespondedAfter(ClearedAfter(response_history, response_history'),
                               bg.threat_detected, bg.event)
    /\ bg' = [bg EXCEPT !.pc = "load_responses", !.handled = @ + 1]
    /\ UNCHANGED << failed_login_attempts, fed, active_responses, last, webStatic >>

\* stats['responses_executed'] += 1: the read
BgLoadResponses ==
    /\ bg.pc = "load_responses"
    /\ bg' = [bg EXCEPT !.pc = "store_responses",
                        !.loaded = stats.responses_executed]
    /\ UNCHANGED << coreVars, monitoring_active, stats, now, inflight, tally >>

\* stats['responses_executed'] += 1: the write
BgStoreResponses ==
    /\ bg.pc = "store_responses"
    /\ stats' = [stats EXCEPT !.responses_executed = bg.loaded + 1]
    /\ bg' = [bg EXCEPT !.pc = "stamp", !.response_stores = @ + 1]
    /\ tally' = [tally EXCEPT !.pipeline_responses = @ + 1]
    /\ UNCHANGED << coreVars, monitoring_active, now, inflight >>

\* stats['last_update'] = datetime.now().isoformat()
BgStamp ==
    /\ bg.pc = "stamp"
    /\ now' = now + 1
    /\ stats' = [stats EXCEPT !.last_update = now']
    /\ bg' = [bg EXCEPT !.pc = "sleep"]
    /\ tally' = [tally EXCEPT !.committed = stats']
    /\ UNCHANGED << coreVars, monitoring_active, inflight >>

\* time.sleep(2), then back to the `while` test
BgSleep ==
    /\ bg.pc = "sleep"
    /\ bg' = [bg EXCEPT !.pc = "while"]
    /\ UNCHANGED << coreVars, monitoring_active, stats, now, inflight, tally >>

Background ==
    \/ BgLoopTest \/ BgCountEvent \/ BgAnalyze \/ BgCountThreat \/ BgRespond
    \/ BgLoadResponses \/ BgStoreResponses \/ BgStamp \/ BgSleep

\* faulty variant of toggle: it only ever switches monitoring on
toggle_always_on(flag) == TRUE

\* monitoring_active = not monitoring_active
toggle(flag) == ~flag

\* the values the flag had before each of the last two toggles, once v is
\* added as the latest
LastTwo(before, v) ==
    IF Len(before) < 2 THEN Append(before, v) ELSE << before[2], v >>

\* POST /api/monitoring/toggle
ToggleMonitoring ==
    /\ last = Idle
    /\ monitoring_active' = toggle(monitoring_active)
    /\ tally' = [tally EXCEPT
                   !.flag_before = LastTwo(@, monitoring_active)]
    /\ last' = [op |-> "toggle_monitoring",
                out |-> [status |-> "success",
                         monitoring_active |-> monitoring_active',
                         message |-> IF monitoring_active'
                                     THEN "Monitoring started"
                                     ELSE "Monitoring stopped"]]
    /\ UNCHANGED << failed_login_attempts, fed, response_history,
                    active_responses, cleared, stats, now, bg, inflight >>

\* GET /api/metrics: jsonify(stats)
GetMetrics ==
    /\ last = Idle
    /\ last' = [op |-> "get_metrics", out |-> stats,
                committed |-> tally.committed]
    /\ UNCHANGED << failed_login_attempts, fed, response_history,
                    active_responses, cleared, webVars >>

\* GET /api/status, with the telemetry backend available or not
GetStatus ==
    /\ last = Idle
    /\ \E available \in BOOLEAN :
         last' = [op |-> "get_status",
                  out |-> [system_health |-> stats.system_health,
                           monitoring_active |-> monitoring_active,
                           events_processed |-> stats.events_processed,
                           threats_detected |-> stats.threats_detected,
                           aws_integration |-> available,
                           aws_region |-> IF available THEN "us-east-1"
                                          ELSE "unknown",
                           last_update |-> stats.last_update],
                  committed |-> tally.committed]
    /\ UNCHANGED << failed_login_attempts, fed, response_history,
                    active_responses, cleared, webVars >>

\* request bodies of POST /api/threats/respond
ManualInputs ==
    { [threat_id |-> "evt_100000", action |-> "block_ip"],
      [threat_id |-> "evt_100000", action |-> "self_destruct"],
      << >> }

manual_messages ==
    [quarantine |-> "System quarantined successfully",
     block_ip |-> "IP address blocked in firewall",
     reset_credentials |-> "User credentials reset",
     isolate_network |-> "Network segment isolated"]

\* manual_threat_response up to its read of stats['responses_executed']
ManualStart ==
    /\ tally.manual_started < MaxManual
    /\ \E data \in ManualInputs :
         inflight' = inflight \cup
             { [id |-> tally.manual_started + 1, data |-> data,
                loaded |-> stats.responses_executed] }
    /\ tally' = [tally EXCEPT !.manual_started = @ + 1]
    /\ UNCHANGED << coreVars, monitoring_active, stats, now, bg >>

\* manual_threat_response from its write of stats['responses_executed'] on
ManualFinish ==
    /\ last = Idle
    /\ \E request \in inflight :
         LET threat_id == Get(request.data, "threat_id", None)
             action == Get(request.data, "action", "quarantine")
         IN  /\ stats' = [stats EXCEPT !.responses_executed = request.loaded + 1]
             /\ now' = now + 1
             /\ inflight' = inflight \ {request}
             /\ last' = [op |-> "manual_threat_response", data |-> request.data,
                         out |-> [status |-> "success", threat_id |-> threat_id,
                                  action_taken |-> action,
                                  message |-> Get(manual_messages, action,
                                                  "Action executed"),
                                  timestamp |-> now']]
    /\ tally' = [tally EXCEPT !.manual_responses = @ + 1]
    /\ UNCHANGED << failed_login_attempts, fed, response_history,
                    active_responses, cleared, monitoring_active, bg >>

(***************************************************************************)
(* The command-line orchestrator (main.py): one loop, `while True`, inside *)
(* a try whose only handler is for KeyboardInterrupt.  A step of a cycle   *)
(* either completes or raises; bg holds the loop's position.               *)
(***************************************************************************)
\* event = event_generator.generate_event(); event_count += 1
MainGenerate ==
    /\ bg.pc = "while"
    /\ tally.cycles < MaxMainCycles
    /\ tally' = [tally EXCEPT !.cycles = @ + 1]
    /\ \/ \E draw \in GeneratorDraws :
            bg' = [bg EXCEPT !.pc = "analyze", !.event = generate_event(draw),
                             !.threat_detected = Null]
       \/ bg' = [bg EXCEPT !.pc = "raised", !.event = Null,
                           !.threat_detected = Null]
    /\ UNCHANGED << coreVars, monitoring_active, stats, now, inflight >>

\* threat_detected = security_monitor.analyze_event(event)
MainAnalyze ==
    /\ bg.pc = "analyze"
    /\ \/ /\ \E tel \in TelemetryInputs :
               \E out \in {analyze_event(bg.event, failed_login_attempts, tel)} :
                   /\ failed_login_attempts' = out.attempts
                   /\ bg' = [bg EXCEPT
                               !.threat_detected = out.ret,
                               !.pc = IF out.raised # "none" THEN "raised"
                                      ELSE IF threat_branch(out.ret) THEN "respond"
                                      ELSE "sleep"]
          /\ fed' = FedAfter(bg.event)
       \/ /\ bg' = [bg EXCEPT !.pc = "raised"]
          /\ UNCHANGED << failed_login_attempts, fed >>
    /\ UNCHANGED << response_history, active_responses, cleared, last, webStatic >>

\* threat_count += 1; response_handler.handle_threat(threat_detected, event);
\* time.sleep(2)
MainRespond ==
    /\ bg.pc = "respond"
    /\ \/ /\ response_history' =
                 handle_threat(bg.threat_detected, bg.event,
                               response_history).history
          /\ cleared' = RespondedAfter(ClearedAfter(response_history, response_history'),
                                     bg.threat_detected, bg.event)
          /\ bg' = [bg EXCEPT !.pc = "sleep", !.handled = @ + 1]
       \/ /\ UNCHANGED << response_history, cleared >>
          /\ bg' = [bg EXCEPT !.pc = "raised"]
    /\ UNCHANGED << failed_login_attempts, fed, active_responses, last, webStatic >>

\* time.sleep(1.5), then the next pass of `while True`
MainSleep ==
    /\ bg.pc = "sleep"
    /\ bg' = [bg EXCEPT !.pc = "while"]
    /\ UNCHANGED << coreVars, monitoring_active, stats, now, inflight, tally >>

\* an exception other than KeyboardInterrupt leaves the try statement, which
\* encloses the loop, and main with it
MainPropagate ==
    /\ bg.pc = "raised"
    /\ bg' = [bg EXCEPT !.pc = "exited"]
    /\ UNCHANGED << coreVars, monitoring_active, stats, now, inflight, tally >>

MainLoop ==
    MainGenerate \/ MainAnalyze \/ MainRespond \/ MainSleep \/ MainPropagate

\* SecurityMonitor.get_monitoring_statistics
GetMonitoringStatistics ==
    /\ last = Idle
    /\ last' = [op |-> "get_monitoring_statistics",
                out |-> [failed_login_tracking |->
                             Cardinality(DOMAIN failed_login_attempts),
                         active_rules |-> 5,
                         detection_methods |->
                             << "keyword_analysis", "ip_reputation",
                                "user_profile_analysis",
                                "resource_access_control",
                                "behavioral_analysis", "severity_analysis",
                                "threat_intelligence" >>]]
    /\ UNCHANGED << failed_login_attempts, fed, response_history,
                    active_responses, cleared, webVars >>

(***************************************************************************)
(* Specifications.                                                         *)
(***************************************************************************)
Init == InitCore /\ InitWeb

Next == AnalyzeEvent \/ ResetMonitoringState \/ Return

\* the rule engine under every sequence of calls
Spec == Init /\ [][Next]_vars

NextHandler ==
    HandleThreat \/ GetResponseStatistics \/ ClearResponseHistory \/ Return

\* the response handler under every sequence of calls
SpecHandler == Init /\ [][NextHandler]_vars

NextWeb ==
    \/ BgLoopTest \/ BgCountEvent \/ BgAnalyze \/ BgCountThreat \/ BgRespond
    \/ BgLoadResponses \/ BgStoreResponses \/ BgStamp \/ BgSleep
    \/ ToggleMonitoring \/ GetMetrics \/ GetStatus
    \/ ManualStart \/ ManualFinish \/ Return

\* the web orchestrator under every interleaving of its threads
SpecWeb == Init /\ [][NextWeb]_vars

\* the same, the background thread being scheduled whenever it can run
SpecWebFair == SpecWeb /\ WF_vars(Background)

NextCycle == Background \/ ToggleMonitoring \/ Return

\* the background thread and the pause flag alone, the thread being
\* scheduled whenever it can run
SpecCycleFair == Init /\ [][NextCycle]_vars /\ WF_vars(Background)

\* the events given to the rule engine when it is driven together with the
\* response handler: the failed logins of the pool, the benign event and the
\* scenario events
CounterEvents ==
    { event \in CompleteEvents : IsFailedLogin(event) }
        \cup {BenignEvent} \cup ScenarioEvents

NextCounter ==
    \/ Analyze(CounterEvents, {AllCalls("ok")})
    \/ ResetMonitoringState
    \/ GetMonitoringStatistics
    \/ Handle(KnownThreats, {BenignEvent})
    \/ GetResponseStatistics
    \/ ClearResponseHistory
    \/ Return

\* the rule engine and the response handler of one process, under every
\* sequence of calls
SpecCounter == Init /\ [][NextCounter]_vars

\* failed logins whose user ids and addresses are arbitrary strings, some of
\* them holding the '@' that the map key is built with
KeyUsers == {"svc", "svc@10.0.0.1"}

KeyIps == {"10.0.0.2", "10.0.0.1@10.0.0.2"}

KeyEvents ==
    { EventOf("failed_login", "info", "User successfully logged in", ip, user,
              "authentication_service", NoIndicators) :
        user \in KeyUsers, ip \in KeyIps }

NextKeys ==
    \/ Analyze(KeyEvents, {AllCalls("ok")})
    \/ ResetMonitoringState
    \/ Return

\* the rule engine fed failed logins of those pairs
SpecKeys == Init /\ [][NextKeys]_vars

\* the draws of generate_event that take the threat branch, over the whole
\* template, address and user pools
ThreatDraws ==
    { [is_threat |-> TRUE, template |-> t, ip |-> i, user |-> u] :
        t \in 1..Len(threat_events), i \in 1..Len(suspicious_ips),
        u \in 1..Len(suspicious_users) }

\* every event the generator builds from the threat template pool
ThreatPoolEvents == { generate_event(draw) : draw \in ThreatDraws }

\* the generator's events given to the rule engine next, the failed logins
\* among them being of at most MaxPairs pairs
PoolInputs ==
    { event \in ThreatPoolEvents \cup NormalPoolEvents :
        IsFailedLogin(event) =>
            Cardinality(fed.pairs \cup {PairOf(event)}) <= MaxPairs }

NextPool ==
    \/ Analyze(PoolInputs, {AllCalls("ok")})
    \/ ResetMonitoringState
    \/ Return

\* the rule engine fed what the generator builds, as the orchestrators' loops
\* feed it
SpecPool == Init /\ [][NextPool]_vars

\* the command-line orchestrator, its loop being scheduled whenever it can
\* run
SpecMainFair == Init /\ [][MainLoop]_vars /\ WF_vars(MainLoop)

(***************************************************************************)
(* Properties of the rule engine (Spec).                                   *)
(***************************************************************************)
Analyzed == last.op = "analyze_event"

\* the rules that fired, by position in the evaluation order
Fired(cands) == {i \in 1..Len(cands) : cands[i] # Null}

\* the candidate of the earliest rule among those with the highest score
Best(cands) ==
    IF Fired(cands) = {} THEN Null
    ELSE cands[CHOOSE i \in Fired(cands) :
                 \A j \in Fired(cands) :
                    \/ cands[j].risk_score < cands[i].risk_score
                    \/ cands[j].risk_score = cands[i].risk_score /\ i <= j]

\* C1: for every event carrying the fields of the data model, analyze_event
\* returns the candidate with the highest risk_score among the rules that
\* fire, the earliest-evaluated of them on a tie, and none when none fires;
\* and whenever it returns at all for a non-empty event, that is its result.
C1_HighestScoreEarliestWins ==
    (Analyzed /\ Truthy(last.event)) =>
        /\ last.event \in CompleteEvents => last.out.raised = "none"
        /\ last.out.raised = "none" =>
              last.out.ret = Best(RuleCandidates(last.event, last.before))

\* two rules tie for the highest score and the earlier one is returned
C1_Witness ==
    /\ Analyzed
    /\ last.out.ret # Null
    /\ last.out.ret.threat_type = "MALICIOUS_IP"
    /\ check_failed_login_pattern(last.event, last.before) # Null

\* the last call analysed a failed_login event, and every failed_login event
\* analysed since the map was empty had this event's (user_id, source_ip)
SamePairRun ==
    /\ Analyzed
    /\ IsFailedLogin(last.event)
    /\ {"user_id", "source_ip"} \subseteq DOMAIN last.event
    /\ fed.pairs = {PairOf(last.event)}

IsBruteForce(candidate) ==
    /\ candidate # Null
    /\ candidate.threat_type = "BRUTE_FORCE_ATTACK"
    /\ candidate.risk_score = 8

\* C2 as stated: from an empty map, the N-th failed_login event of one
\* (user_id, source_ip) makes analyze_event return no threat for N < 3 and a
\* BRUTE_FORCE_ATTACK threat with risk_score 8 for N >= 3.
C2_AsStated ==
    SamePairRun =>
        /\ last.out.raised = "none"
        /\ fed.n < 3 => last.out.ret = Null
        /\ fed.n >= 3 => IsBruteForce(last.out.ret)

\* no rule but the failed-login rule yields a candidate for the event
OnlyLoginRuleFires(event, attempts) ==
    Fired(RuleCandidates(event, attempts)) \subseteq {5}

\* C2 amended: from an empty map, the N-th failed_login event of one
\* (user_id, source_ip) makes the failed-login rule yield no candidate for
\* N < 3 and a BRUTE_FORCE_ATTACK candidate with risk_score 8 for N >= 3;
\* analyze_event returns exactly that (none, or the candidate) when no other
\* rule's condition holds for the event.
C2_FailedLoginRuleSequence ==
    SamePairRun =>
        LET login == last.out.cands[5]
        IN  /\ fed.n < 3 => login = Null
            /\ fed.n >= 3 => IsBruteForce(login)
            /\ (OnlyLoginRuleFires(last.event, last.before)
                  /\ last.event \in CompleteEvents) =>
                  /\ last.out.raised = "none"
                  /\ last.out.ret = login

\* the fourth failed login of one pair still yields the brute-force threat
C2_Witness ==
    /\ SamePairRun
    /\ fed.n = 4
    /\ OnlyLoginRuleFires(last.event, last.before)
    /\ IsBruteForce(last.out.ret)

\* C7: analyze_event never raises: a null or empty event gives none, and an
\* event with any subset of its fields missing is analysed without an error.
C7_AnalyzeNeverRaises ==
    Analyzed =>
        /\ last.out.raised = "none"
        /\ ~Truthy(last.event) => last.out.ret = Null

\* C8: whatever the telemetry collaborator does, analyze_event returns what
\* it returns when telemetry succeeds, leaves the same failed-login map, and
\* raises nothing that came from telemetry.
C8_TelemetryNeverAffectsAnalysis ==
    Analyzed =>
        LET quiet == analyze_event(last.event, last.before, AllCalls("ok"))
        IN  /\ last.out.ret = quiet.ret
            /\ last.out.raised = quiet.raised
            /\ last.out.raised # "Exception"
            /\ last.out.attempts = quiet.attempts
            /\ failed_login_attempts = quiet.attempts

\* a collaborator call raised while a threat was being forwarded, and the
\* threat was returned all the same
C8_Witness ==
    /\ Analyzed
    /\ last.out.tel_error
    /\ last.out.ret # Null
    /\ IsFailedLogin(last.event)
    /\ failed_login_attempts # last.before

(***************************************************************************)
(* Properties of the response handler (SpecHandler).                       *)
(***************************************************************************)
Handled == last.op = "handle_threat"

\* the policy handle_threat resolves for a threat
ResolvedPolicy(threat_info) ==
    LET type == Get(threat_info, "threat_type", None)
    IN  IF type \in DOMAIN response_actions
        THEN response_actions[type] ELSE get_default_response

\* the actions among the executed steps, in order
ExecutedActions(steps) ==
    SelectSeq(steps, LAMBDA s : s[1] \notin {"logger.error", "_log_response",
                                            "_escalate_incident"})

C10_FailsFast ==
    (Handled /\ (~Truthy(last.threat_info) \/ ~Truthy(last.event))) =>
        /\ last.out.ret = Null
        /\ last.out.steps = << Step("logger.error", "") >>
        /\ response_history = last.before

\* a known threat arrived with an empty event and nothing was done
C10_Witness ==
    /\ Handled
    /\ Truthy(last.threat_info)
    /\ last.event = << >>
    /\ Len(response_history) = 1
    /\ response_history = last.before

(***************************************************************************)
(* The web orchestrator.                                                   *)
(***************************************************************************)
ToggledOn == last.op = "toggle_monitoring" /\ monitoring_active

\* C4: whenever a toggle call leaves the monitoring flag active and the flag
\* then stays active, events_processed eventually increases (the background
\* thread being scheduled whenever it can run).
C4_ToggleResumesCycle ==
    \A n \in 0..(MaxCycles - 1) :
        [] ((ToggledOn /\ stats.events_processed = n)
              => <> (~monitoring_active \/ stats.events_processed > n))

SnapshotRead == last.op \in {"get_metrics", "get_status"}

\* C5: a read of the stats block by the metrics or the status endpoint never
\* sees a cycle partly applied: the cycle-owned fields it returns are those
\* the block had when the last cycle completed.
C5_ConsistentSnapshot ==
    SnapshotRead =>
        /\ last.out.events_processed = last.committed.events_processed
        /\ last.out.threats_detected = last.committed.threats_detected
        /\ last.out.last_update = last.committed.last_update

\* no manual response is in flight and the thread is between two cycles
Quiescent == inflight = {} /\ bg.pc \in {"while", "sleep", "exited"}

\* C6: no increment of responses_executed is lost: once every operation has
\* finished, responses_executed is the number of pipeline responses plus the
\* number of manual-response calls.
C6_NoLostIncrement ==
    Quiescent =>
        stats.responses_executed =
            tally.pipeline_responses + tally.manual_responses

CycleDone == bg.pc = "sleep"

ThreatReturned == bg.threat_detected # Null

OneIf(b) == IF b THEN 1 ELSE 0

Responded == Handled /\ Truthy(last.threat_info) /\ Truthy(last.event)

\* the positions of the steps at which the escalation procedure ran
EscalationSteps(steps) ==
    {i \in 1..Len(steps) : steps[i][1] = "_escalate_incident"}

\* C11: within one handle_threat call the policy's actions are executed in
\* list order, each exactly once; the escalation procedure runs if and only
\* if the resolved policy has escalation_required, and then once, after the
\* last action, never before or between actions.
C11_ActionsInOrderThenEscalation ==
    Responded =>
        LET policy == ResolvedPolicy(last.threat_info)
            steps == last.out.steps
            n == Len(policy.actions)
        IN  /\ Len(steps) >= n
            /\ \A i \in 1..n :
                  /\ steps[i][2] = policy.actions[i]
                  /\ steps[i][1] \notin {"logger.error", "_log_response",
                                         "_escalate_incident"}
            /\ \A i \in (n + 1)..Len(steps) :
                  steps[i][1] \in {"_log_response", "_escalate_incident"}
            /\ Cardinality(EscalationSteps(steps))
                  = (IF policy.escalation_required THEN 1 ELSE 0)
            /\ \A i \in EscalationSteps(steps) : i > n

\* a policy without escalation ran its three actions and nothing escalated
C11_Witness ==
    /\ Responded
    /\ Get(last.threat_info, "threat_type", None) = "SUSPICIOUS_ACTIVITY"
    /\ Len(ExecutedActions(last.out.steps)) = 3
    /\ last.out.steps[1][2] = "increase_monitoring"
    /\ last.out.steps[3][2] = "notify_admin"
    /\ EscalationSteps(last.out.steps) = {}

\* the record the call appended to the history
AppendedRecord == response_history[Len(response_history)]

\* the action tags of the executed steps, in order
ExecutedTags(steps) ==
    [i \in 1..Len(ExecutedActions(steps)) |-> ExecutedActions(steps)[i][2]]

\* C12: for a threat whose threat_type is no key of the policy table (a
\* missing threat_type included) handle_threat resolves the default entry:
\* actions log_incident, alert_security_team, increase_monitoring in that
\* order, priority medium, escalation required; for a threat_type that is a
\* key it resolves exactly that key's entry.
C12_UnknownTypeResolvesDefault ==
    Responded =>
        LET type == Get(last.threat_info, "threat_type", None)
            steps == last.out.steps
        IN  /\ Len(response_history) = Len(last.before) + 1
            /\ type \notin DOMAIN response_actions =>
                  /\ ExecutedTags(steps) = << "log_incident", "alert_security_team",
                                              "increase_monitoring" >>
                  /\ AppendedRecord.actions_executed
                        = << "log_incident", "alert_security_team",
                             "increase_monitoring" >>
                  /\ AppendedRecord.priority = "medium"
                  /\ AppendedRecord.escalation_required = TRUE
                  /\ EscalationSteps(steps) # {}
            /\ type \in DOMAIN response_actions =>
                  /\ ExecutedTags(steps) = response_actions[type].actions
                  /\ AppendedRecord.actions_executed = response_actions[type].actions
                  /\ AppendedRecord.priority = response_actions[type].priority
                  /\ AppendedRecord.escalation_required
                        = response_actions[type].escalation_required
                  /\ (EscalationSteps(steps) # {})
                        = response_actions[type].escalation_required

\* a threat dict without threat_type was handled through the default entry
C12_Witness ==
    /\ Responded
    /\ "threat_type" \notin DOMAIN last.threat_info
    /\ AppendedRecord.threat_type = None
    /\ AppendedRecord.priority = "medium"
    /\ Len(last.out.steps) = 5

C19_ClearThenStatistics ==
    /\ last.op = "clear_response_history" =>
          /\ response_history = << >>
          /\ active_responses = << >>
          /\ cleared.calls >= 2 => last.before = << >>
    /\ cleared.calls >= 1 => response_history = << >>
    /\ (last.op = "get_response_statistics" /\ cleared.calls >= 1) =>
          /\ last.out = [total_responses |-> 0]
          /\ DOMAIN last.out = {"total_responses"}

\* MaxHistory records were appended, the history was cleared twice, and the
\* statistics then report no responses
C19_Witness ==
    /\ last.op = "get_response_statistics"
    /\ cleared.calls = 2
    /\ cleared.dropped = MaxHistory
    /\ last.out = [total_responses |-> 0]

\* the sum of the counts of a dict of counts
RECURSIVE SumOf(_)
SumOf(counts) ==
    IF DOMAIN counts = {} THEN 0
    ELSE LET k == CHOOSE k \in DOMAIN counts : TRUE
         IN  counts[k] + SumOf([j \in DOMAIN counts \ {k} |-> counts[j]])

\* the number of records, read one after the other, that required escalation
RECURSIVE Escalated(_)
Escalated(history) ==
    IF history = << >> THEN 0
    ELSE (IF Head(history).escalation_required THEN 1 ELSE 0)
            + Escalated(Tail(history))

\* C20: for a non-empty history, get_response_statistics reports the history
\* and nothing else: total_responses is its length, the by_threat_type
\* counts and the by_priority counts each sum to the total, escalations is
\* the number of records with escalation_required true, and the history is
\* left as it was.
C20_StatisticsDerivedFromHistory ==
    (last.op = "get_response_statistics" /\ last.before # << >>) =>
        /\ DOMAIN last.out
              = {"total_responses", "by_threat_type", "by_priority", "escalations"}
        /\ last.out.total_responses = Len(last.before)
        /\ SumOf(last.out.by_threat_type) = last.out.total_responses
        /\ SumOf(last.out.by_priority) = last.out.total_responses
        /\ \A t \in DOMAIN last.out.by_threat_type :
              /\ last.out.by_threat_type[t] >= 1
              /\ \E i \in Records(last.before) : last.before[i].threat_type = t
        /\ \A p \in DOMAIN last.out.by_priority :
              /\ last.out.by_priority[p] >= 1
              /\ \E i \in Records(last.before) : last.before[i].priority = p
        /\ last.out.escalations = Escalated(last.before)
        /\ response_history = last.before

\* two records of one threat type and one priority, both escalated
C20_Witness ==
    /\ last.op = "get_response_statistics"
    /\ Len(last.before) = 2
    /\ last.before[1].threat_type = last.before[2].threat_type
    /\ last.out.total_responses = 2
    /\ Cardinality(DOMAIN last.out.by_threat_type) = 1
    /\ last.out.escalations = 2
    /\ response_history = last.before

\* action tags of the policy table that have no dedicated simulation routine
GenericTags ==
    {"block_access", "isolate_affected_systems", "log_for_analysis",
     "quarantine_system"}

\* the positions of the steps that ran through the generic stub
GenericSteps(steps) == {i \in 1..Len(steps) : steps[i][1] = "generic"}

\* C25: an action tag with no dedicated simulation routine (block_access,
\* isolate_affected_systems, log_for_analysis, quarantine_system) runs
\* through the generic stub, and the policy's remaining actions, the history
\* append and the escalation run all the same.
C25_GenericStubForUnknownAction ==
    Responded =>
        LET policy == ResolvedPolicy(last.threat_info)
            steps == last.out.steps
            n == Len(policy.actions)
        IN  /\ \A i \in 1..n :
                  /\ i <= Len(steps)
                  /\ steps[i][2] = policy.actions[i]
                  /\ policy.actions[i] \in GenericTags => steps[i][1] = "generic"
                  /\ steps[i][1] = "generic" =>
                        policy.actions[i] \notin DOMAIN action_simulations
                  /\ steps[i][1] # "generic" =>
                        steps[i][1] = action_simulations[policy.actions[i]]
            /\ GenericSteps(steps) # {} =>
                  /\ Len(steps) = n + 1 + (IF policy.escalation_required THEN 1 ELSE 0)
                  /\ steps[n + 1][1] = "_log_response"
                  /\ policy.escalation_required =>
                        steps[n + 2][1] = "_escalate_incident"
                  /\ Len(response_history) = Len(last.before) + 1
                  /\ AppendedRecord.actions_executed = policy.actions

\* block_access, the first action of its policy, went through the generic
\* stub; the two actions after it, the record and the escalation followed
C25_Witness ==
    /\ Responded
    /\ Get(last.threat_info, "threat_type", None) = "RESTRICTED_RESOURCE_ACCESS"
    /\ last.out.steps[1] = Step("generic", "block_access")
    /\ last.out.steps[2] = Step("_simulate_resource_isolation", "isolate_resource")
    /\ last.out.steps[3] = Step("_simulate_security_alert", "alert_security_team")
    /\ last.out.steps[4][1] = "_log_response"
    /\ last.out.steps[5][1] = "_escalate_incident"
    /\ AppendedRecord.threat_type = "RESTRICTED_RESOURCE_ACCESS"

\* the record a handle_threat call is to append for a threat and an event
RecordOf(threat_info, event) ==
    LET policy == ResolvedPolicy(threat_info)
    IN  [threat_type |-> Get(threat_info, "threat_type", None),
         event_id |-> Get(event, "event_id", None),
         risk_score |-> Get(threat_info, "risk_score", None),
         actions_executed |-> policy.actions,
         priority |-> policy.priority,
         escalation_required |-> policy.escalation_required]

HandleStep == last.op = "idle" /\ last'.op = "handle_threat"

\* C30: the response history is append-only between clears: its length is
\* the number of handle_threat calls given both a threat and an event since
\* the last clear; each such call appends one record at the end, carrying
\* the threat's type and score, the event's id and the resolved policy's
\* actions, priority and escalation flag; no handle_threat call alters or
\* removes an earlier record.
C30_HistoryAppendOnly ==
    /\ [] (Len(response_history) = cleared.responded)
    /\ [][HandleStep =>
             IF Truthy(last'.threat_info) /\ Truthy(last'.event)
             THEN response_history' =
                      Append(response_history,
                             RecordOf(last'.threat_info, last'.event))
             ELSE response_history' = response_history]_vars

\* the second call since the last clear put its record behind the first,
\* which is as it was
C30_Witness ==
    /\ Responded
    /\ Len(last.before) = 1
    /\ cleared.responded = 2
    /\ Len(response_history) = 2
    /\ response_history[1] = last.before[1]
    /\ response_history[2] = RecordOf(last.threat_info, last.event)
    /\ response_history[2] # response_history[1]

(***************************************************************************)
(* Further properties of the rule engine (Spec).                           *)
(***************************************************************************)
\* the fields the data model requires of an event
RequiredFields ==
    { "event_id", "event_type", "severity", "description", "source_ip",
      "user_id", "resource" }

\* the end-to-end scenario event, with at most two threat indicators
IsScenario(event) ==
    /\ Truthy(event)
    /\ RequiredFields \subseteq DOMAIN event
    /\ event.event_type = "unauthorized_access"
    /\ event.severity = "critical"
    /\ event.description = "Unauthorized access attempt to restricted resource"
    /\ event.resource = "admin_panel"
    /\ event.source_ip = "203.0.113.45"
    /\ Len(Get(event, "threat_indicators", << >>)) <= 2

\* C13: for the event with event_type unauthorized_access, severity
\* critical, description "Unauthorized access attempt to restricted
\* resource", resource admin_panel and source_ip 203.0.113.45, whatever its
\* user_id, its threat indicators (at most two) and the failed-login map,
\* analyze_event returns a candidate with risk_score 9 and threat_type
\* KEYWORD_THREAT.
C13_ScenarioYieldsKeywordThreat ==
    (Analyzed /\ IsScenario(last.event)) =>
        /\ last.out.raised = "none"
        /\ last.out.ret # Null
        /\ last.out.ret.risk_score = 9
        /\ last.out.ret.threat_type = "KEYWORD_THREAT"

\* the scenario event of a normal user with two indicators, analysed on a
\* non-empty failed-login map: the severity and indicator rules tie at 9
C13_Witness ==
    /\ Analyzed
    /\ IsScenario(last.event)
    /\ last.event.user_id = "user001"
    /\ Len(Get(last.event, "threat_indicators", << >>)) = 2
    /\ last.before # << >>
    /\ last.out.cands[6] # Null /\ last.out.cands[6].risk_score = 9
    /\ last.out.cands[7] # Null /\ last.out.cands[7].risk_score = 9
    /\ last.out.ret.threat_type = "KEYWORD_THREAT"

\* C14: for every event the generator can build from the normal template
\* pool (user_login, api_call, file_access with any normal-pool address and
\* user, system_update with its internal/system attribution), analyze_event
\* returns None, whatever the failed-login map holds.
C14_NormalPoolYieldsNoThreat ==
    (Analyzed /\ last.event \in NormalPoolEvents) =>
        /\ last.out.raised = "none"
        /\ last.out.ret = Null
        /\ last.out.attempts = last.before

\* a normal-pool login of the pair whose failed logins have already reached
\* the threshold is analysed and yields nothing
C14_Witness ==
    /\ Analyzed
    /\ last.event \in NormalPoolEvents
    /\ last.event.event_type = "user_login"
    /\ LoginKey(last.event) \in DOMAIN last.before
    /\ last.before[LoginKey(last.event)] >= max_failed_attempts
    /\ last.out.ret = Null

\* whether the lowercased description holds one of the critical keywords
HasCriticalKeyword(event) ==
    \E i \in 1..Len(critical_keywords) :
        Contains(Chars(critical_keywords[i]),
                 lower(Chars(Get(event, "description", ""))))

\* the threat type and score each rule declares, by position of the rule
DeclaredType(i, event) ==
    CASE i = 1 -> IF HasCriticalKeyword(event)
                  THEN "KEYWORD_THREAT" ELSE "SUSPICIOUS_ACTIVITY"
      [] i = 2 -> "MALICIOUS_IP"
      [] i = 3 -> "HIGH_RISK_USER"
      [] i = 4 -> "RESTRICTED_RESOURCE_ACCESS"
      [] i = 5 -> "BRUTE_FORCE_ATTACK"
      [] i = 6 -> IF Get(event, "severity", "info") = "critical"
                  THEN "CRITICAL_SECURITY_EVENT" ELSE "HIGH_RISK_EVENT"
      [] i = 7 -> "THREAT_INDICATORS_DETECTED"

DeclaredScore(i, event) ==
    CASE i = 1 -> IF HasCriticalKeyword(event) THEN 9 ELSE 6
      [] i = 2 -> 8
      [] i = 3 -> 7
      [] i = 4 -> 7
      [] i = 5 -> 8
      [] i = 6 -> IF Get(event, "severity", "info") = "critical" THEN 9 ELSE 7
      [] i = 7 -> Min(10, 5 + 2 * Len(Get(event, "threat_indicators", << >>)))

\* C15: when exactly one rule's condition holds for the event, analyze_event
\* returns that rule's candidate with its declared score (critical keyword
\* 9, suspicious keyword 6, blocked address 8, high-risk user 7, restricted
\* resource 7, failed-login threshold 8, severity critical 9, severity high
\* 7, indicators min(10, 5 + 2*count)); when no rule's condition holds it
\* returns None.
C15_SingleRuleDeclaredScore ==
    (Analyzed /\ Truthy(last.event) /\ last.out.raised = "none") =>
        /\ Fired(last.out.cands) = {} => last.out.ret = Null
        /\ \A i \in 1..7 :
              Fired(last.out.cands) = {i} =>
                 /\ last.out.ret # Null
                 /\ last.out.ret = last.out.cands[i]
                 /\ last.out.ret.threat_type = DeclaredType(i, last.event)
                 /\ last.out.ret.risk_score = DeclaredScore(i, last.event)

\* only the high-risk-user rule fires and its candidate is returned
C15_Witness ==
    /\ Analyzed
    /\ RequiredFields \subseteq DOMAIN last.event
    /\ Fired(last.out.cands) = {3}
    /\ last.out.ret.threat_type = "HIGH_RISK_USER"
    /\ last.out.ret.risk_score = 7

\* the candidate of the threat-indicator rule in the last analysis
IndicatorCandidate == RuleCandidates(last.event, last.before)[7]

IndicatorCount == Len(Get(last.event, "threat_indicators", << >>))

\* C16: the threat-indicator rule yields no candidate for an event with no
\* or an empty threat_indicators list, and otherwise a candidate whose
\* risk_score is min(10, 5 + 2*count): 7 for one indicator, 9 for two, 10
\* for three and more.
C16_IndicatorScoreClamped ==
    (Analyzed /\ Truthy(last.event)) =>
        /\ IndicatorCount = 0 => IndicatorCandidate = Null
        /\ IndicatorCount > 0 =>
              /\ IndicatorCandidate # Null
              /\ IndicatorCandidate.threat_type = "THREAT_INDICATORS_DETECTED"
              /\ IndicatorCandidate.risk_score
                    = (CASE IndicatorCount = 1 -> 7
                         [] IndicatorCount = 2 -> 9
                         [] OTHER -> 10)
        /\ (last.out.raised = "none" /\ last.out.ret # Null
              /\ last.out.ret.threat_type = "THREAT_INDICATORS_DETECTED")
              => last.out.ret = IndicatorCandidate

\* three indicators on an otherwise benign event: 5 + 2*3 is clamped to 10
\* and the candidate is returned
C16_Witness ==
    /\ Analyzed
    /\ Truthy(last.event)
    /\ IndicatorCount = 3
    /\ last.out.raised = "none"
    /\ last.out.ret # Null
    /\ last.out.ret.threat_type = "THREAT_INDICATORS_DETECTED"
    /\ last.out.ret.risk_score = 10

\* the failed-login rule's candidate in the last analysis
LoginCandidate == RuleCandidates(last.event, last.before)[5]

\* C18: reset_monitoring_state empties the failed-login map whatever it
\* held; after a reset the first two failed_login events of a
\* (user_id, source_ip) pair do not fire the failed-login rule and the third
\* one does, as from the initial state.
C18_ResetRestartsCounting ==
    /\ last.op = "reset_monitoring_state" =>
          /\ last.before # << >>
          /\ failed_login_attempts = << >>
    /\ SamePairRun =>
          /\ fed.n <= 2 => LoginCandidate = Null
          /\ fed.n >= 3 => IsBruteForce(LoginCandidate)
          /\ failed_login_attempts[LoginKey(last.event)] = fed.n

\* after a reset, the third failed login of a pair fires the rule
C18_Witness ==
    /\ SamePairRun
    /\ fed.reset
    /\ fed.n = 3
    /\ IsBruteForce(LoginCandidate)
    /\ last.out.raised = "none"
    /\ IsBruteForce(last.out.ret)

(***************************************************************************)
(* Further properties of the web orchestrator (SpecWeb).                   *)
(***************************************************************************)
\* a step in which the toggle endpoint is served
ToggleStep == last.op = "idle" /\ last'.op = "toggle_monitoring"

\* C21: the toggle flips the monitoring flag and changes nothing in the
\* stats block, and after two toggles in a row the flag has the value it had
\* before them.
C21_ToggleFlipsFlagOnly ==
    /\ [] (Len(tally.flag_before) = 2 =>
              monitoring_active = tally.flag_before[1])
    /\ [][ToggleStep =>
              /\ monitoring_active' = ~monitoring_active
              /\ last'.out.monitoring_active = monitoring_active'
              /\ stats' = stats]_vars

\* monitoring was on, was toggled off and on again while a cycle was
\* responding to a threat, and is on as before
C21_Witness ==
    /\ last.op = "toggle_monitoring"
    /\ tally.flag_before = << TRUE, FALSE >>
    /\ monitoring_active
    /\ bg.pc = "respond"
    /\ stats.events_processed > 0

\* the thread is inside a cycle
InCycle ==
    bg.pc \in {"count_event", "analyze", "count_threat", "respond",
               "load_responses", "store_responses", "stamp"}

\* the cycle has handled its threat: its actions have run and its record is
\* the last of the history
ThreatHandled ==
    /\ bg.handled = 1
    /\ response_history # << >>
    /\ response_history[Len(response_history)].actions_executed
          = ResolvedPolicy(bg.threat_detected).actions
    /\ response_history[Len(response_history)].threat_type
          = bg.threat_detected.threat_type

\* C22: cycles do not overlap and are not cancelled: a cycle starts only
\* when the thread is at its loop test, outside any cycle, with the flag on;
\* and a cycle that has started responding runs all its actions, appends its
\* record and makes its counter updates, whatever happens to the flag
\* meanwhile.
C22_CyclesRunToCompletion ==
    /\ [][tally.cycles' # tally.cycles =>
             /\ tally.cycles' = tally.cycles + 1
             /\ ~InCycle /\ bg.pc = "while" /\ monitoring_active
             /\ bg'.pc = "count_event"]_vars
    /\ [][(bg.pc = "respond" /\ bg'.pc # "respond") =>
             /\ bg'.pc = "load_responses"
             /\ Len(response_history') = Len(response_history) + 1]_vars
    /\ [](bg.pc = "respond" =>
            <>(/\ CycleDone
               /\ ThreatHandled
               /\ bg.response_stores = 1
               /\ stats.threats_detected = bg.start.threats_detected + 1
               /\ stats.events_processed = bg.start.events_processed + 1
               /\ stats.last_update > bg.start.last_update))

\* a cycle that handled a threat is complete although the flag was switched
\* off after it started
C22_Witness ==
    /\ CycleDone
    /\ ThreatReturned
    /\ ThreatHandled
    /\ bg.response_stores = 1
    /\ ~monitoring_active

\* a step in which a manual-response request is answered
ManualStep == last.op = "idle" /\ last'.op = "manual_threat_response"

\* C23: the manual-response hook answers with an acknowledgment carrying the
\* supplied threat id and action, known or not, increments
\* responses_executed by exactly one, and leaves events_processed,
\* threats_detected, the failed-login map and the response history
\* unchanged.
C23_ManualResponseFrame ==
    [][ManualStep =>
          /\ last'.out.status = "success"
          /\ last'.out.threat_id = Get(last'.data, "threat_id", None)
          /\ last'.out.action_taken = Get(last'.data, "action", "quarantine")
          /\ stats'.responses_executed = stats.responses_executed + 1
          /\ stats'.events_processed = stats.events_processed
          /\ stats'.threats_detected = stats.threats_detected
          /\ failed_login_attempts' = failed_login_attempts
          /\ response_history' = response_history]_vars

(***************************************************************************)
(* The command-line orchestrator (SpecMainFair).                           *)
(***************************************************************************)
\* C26: a failure raised in a step of a cycle (generate, analyze or respond)
\* does not end the loop: a later cycle is eventually started.
C26_NoFatalErrorPath ==
    \A n \in 1..(MaxMainCycles - 1) :
        [] ((bg.pc = "raised" /\ tally.cycles = n) => <> (tally.cycles > n))

(***************************************************************************)
(* The web orchestrator's counters (SpecWeb).                              *)
(***************************************************************************)
\* C29: in every reachable state threats_detected <= events_processed and
\* responses_executed <= threats_detected + the number of manual-response
\* calls made so far, and no step lowers a counter.
C29_CountersOrderedAndMonotonic ==
    /\ [] /\ stats.threats_detected <= stats.events_processed
          /\ stats.responses_executed
                <= stats.threats_detected + tally.manual_started
    /\ [][/\ stats'.events_processed >= stats.events_processed
          /\ stats'.threats_detected >= stats.threats_detected
          /\ stats'.responses_executed >= stats.responses_executed]_vars

(***************************************************************************)
(* The failed-login map under the calls of both components (SpecCounter).  *)
(***************************************************************************)
\* a step that serves a call of the given operations
CallStep(ops) == last.op = "idle" /\ last'.op \in ops

\* the count of a key, 0 when the key is absent
CountOf(attempts, key) == IF key \in DOMAIN attempts THEN attempts[key] ELSE 0

\* every key that may occur in the map
CounterKeys ==
    DOMAIN failed_login_attempts \cup DOMAIN failed_login_attempts'

\* C24: the failed-login map is changed only by the failed-login rule:
\* analyze_event of an event that is not a failed_login leaves it unchanged;
\* analyze_event of a failed_login adds exactly one to the count of the
\* event's key and touches no other key, whichever rule's candidate is
\* returned; handle_threat, the statistics calls and clear_response_history
\* leave it unchanged; and no count decreases, nor does a key disappear,
\* except through reset_monitoring_state.
C24_OnlyLoginRuleChangesMap ==
    [][/\ (CallStep({"analyze_event"}) /\ ~IsFailedLogin(last'.event)) =>
             failed_login_attempts' = failed_login_attempts
       /\ (CallStep({"analyze_event"}) /\ IsFailedLogin(last'.event)) =>
             \A key \in CounterKeys \cup {LoginKey(last'.event)} :
                CountOf(failed_login_attempts', key) =
                    CountOf(failed_login_attempts, key)
                        + (IF key = LoginKey(last'.event) THEN 1 ELSE 0)
       /\ CallStep({"handle_threat", "get_response_statistics",
                    "get_monitoring_statistics",
                    "clear_response_history"}) =>
             failed_login_attempts' = failed_login_attempts
       /\ ~CallStep({"reset_monitoring_state"}) =>
             \A key \in DOMAIN failed_login_attempts :
                /\ key \in DOMAIN failed_login_attempts'
                /\ failed_login_attempts'[key] >= failed_login_attempts[key]
      ]_vars

\* a failed login from a blocked address is counted although the candidate
\* returned is the address rule's, and the handler has a record meanwhile
C24_Witness ==
    /\ Analyzed
    /\ IsFailedLogin(last.event)
    /\ last.out.ret # Null
    /\ last.out.ret.threat_type = "MALICIOUS_IP"
    /\ LoginCandidate = Null
    /\ failed_login_attempts[LoginKey(last.event)]
          = CountOf(last.before, LoginKey(last.event)) + 1
    /\ Cardinality(DOMAIN failed_login_attempts) >= 2
    /\ response_history # << >>

(***************************************************************************)
(* The failed-login pairs (SpecKeys).                                      *)
(***************************************************************************)
KeyPairs == KeyUsers \X KeyIps

\* the count the rule holds for a pair: the entry it would look up for it
CountOfPair(pair) ==
    CountOf(failed_login_attempts, Str(pair[1]) \o "@" \o Str(pair[2]))

\* C27: the counts of distinct (user_id, source_ip) pairs are independent: a
\* failed login of one pair leaves the count of every different pair as it
\* was, whatever characters the two strings hold.
C27_PairsIndependent ==
    [][(CallStep({"analyze_event"}) /\ IsFailedLogin(last'.event)) =>
          \A pair \in KeyPairs :
             pair # PairOf(last'.event) => CountOfPair(pair)' = CountOfPair(pair)
      ]_vars

(***************************************************************************)
(* The generator's events in the rule engine (SpecPool).                   *)
(***************************************************************************)
PoolTypes ==
    {"KEYWORD_THREAT", "CRITICAL_SECURITY_EVENT", "THREAT_INDICATORS_DETECTED"}

\* C28: every event built from the threat template pool makes analyze_event
\* return a candidate of score 9 whose type is KEYWORD_THREAT,
\* CRITICAL_SECURITY_EVENT or THREAT_INDICATORS_DETECTED, whatever the
\* failed-login map holds; so no event of the generator gets a candidate of
\* any other type.
C28_ThreatPoolScoresNine ==
    Analyzed =>
        /\ last.event \in ThreatPoolEvents =>
              /\ last.out.ret # Null
              /\ last.out.ret.risk_score = 9
        /\ last.out.ret # Null => last.out.ret.threat_type \in PoolTypes

\* the third failed login of a pool pair: the pair's count is at the
\* threshold, and the candidate returned is still the indicators' one
C28_Witness ==
    /\ Analyzed
    /\ last.event \in ThreatPoolEvents
    /\ IsFailedLogin(last.event)
    /\ failed_login_attempts[LoginKey(last.event)] >= 3
    /\ LoginCandidate # Null
    /\ last.out.ret.threat_type = "THREAT_INDICATORS_DETECTED"
    /\ last.out.ret.risk_score = 9
====
